---- MODULE Spec2Model ----
(***************************************************************************)
(* Model of SoftLayer.managers.cdn.CDNManager and of the `cdn purge`       *)
(* command (SoftLayer/CLI/cdn/purge.py).                                   *)
(*                                                                         *)
(* Every manager method is an operator that takes the method's arguments,  *)
(* the clock readings it takes and the answer of the remote service to the *)
(* call it issues, and yields the remote calls it issued together with its *)
(* outcome (a returned value or a raised exception).  One action per       *)
(* method draws the arguments and the remote answer from small sets.       *)
(***************************************************************************)
EXTENDS Integers, Sequences, FiniteSets, TLC

(* ------------------------------ bounds --------------------------------- *)
\* longest collection the remote service answers with
MaxLen == 2
\* largest value of the days argument of get_usage_metrics
MaxDays == 2
\* number of half-second steps the wall clock takes
MaxTicks == 2

(* --------------------------- Python values ----------------------------- *)
PyNone == [t |-> "none"]
Str(s) == [t |-> "str", v |-> s]
PyInt(n) == [t |-> "int", v |-> n]
List(s) == [t |-> "list", v |-> s]
Dict(f) == [t |-> "dict", v |-> f]

EmptyDict == [k \in {} |-> PyNone]

\* bool(x) of a Python value
Truthy(x) ==
    CASE x.t = "none" -> FALSE
      [] x.t = "str" -> x.v # ""
      [] x.t = "int" -> x.v # 0
      [] x.t = "list" -> x.v # <<>>
      [] x.t = "dict" -> DOMAIN x.v # {}

\* how a call ends
Return(v) == [t |-> "return", v |-> v]
Raise(exc, msg) == [t |-> "raise", exc |-> exc, msg |-> msg]

\* x[i] for an integer index i >= 0
GetItemInt(x, i) ==
    CASE x.t = "list" ->
            IF i + 1 <= Len(x.v) THEN Return(x.v[i + 1])
            ELSE Raise("IndexError", "list index out of range")
      [] x.t = "dict" ->
            Raise("KeyError", "integer key")
      [] OTHER ->
            Raise("TypeError", "object is not subscriptable")

\* x[k] for a string key k
GetItemStr(x, k) ==
    CASE x.t = "dict" ->
            IF k \in DOMAIN x.v THEN Return(x.v[k])
            ELSE Raise("KeyError", k)
      [] x.t = "list" ->
            Raise("TypeError", "list indices must be integers or slices, not str")
      [] x.t = "str" ->
            Raise("TypeError", "string indices must be integers")
      [] OTHER ->
            Raise("TypeError", "object is not subscriptable")

(* ------------------------- dates and the clock ------------------------- *)
\* a datetime: day number since 1970-01-01, second of the day, microsecond
DateTime(day, sec, us) == [day |-> day, sec |-> sec, us |-> us]

\* the characters of the date strings the model passes to get_usage_metrics
Chars ==
    "2021-01-01 00:00:00" :> <<"2", "0", "2", "1", "-", "0", "1", "-", "0", "1", " ", "0", "0", ":", "0", "0", ":", "0", "0">> @@
    "2021-01-02 00:00:00" :> <<"2", "0", "2", "1", "-", "0", "1", "-", "0", "2", " ", "0", "0", ":", "0", "0", ":", "0", "0">> @@
    "2021-1-2 3:04:05" :> <<"2", "0", "2", "1", "-", "1", "-", "2", " ", "3", ":", "0", "4", ":", "0", "5">> @@
    "2021-01-01" :> <<"2", "0", "2", "1", "-", "0", "1", "-", "0", "1">> @@
    "2021-02-30 00:00:00" :> <<"2", "0", "2", "1", "-", "0", "2", "-", "3", "0", " ", "0", "0", ":", "0", "0", ":", "0", "0">>

DigitVal ==
    "0" :> 0 @@ "1" :> 1 @@ "2" :> 2 @@ "3" :> 3 @@ "4" :> 4 @@
    "5" :> 5 @@ "6" :> 6 @@ "7" :> 7 @@ "8" :> 8 @@ "9" :> 9

Digits == DOMAIN DigitVal
Whitespace == {" ", "\t", "\n", "\r"}

\* length of the run of characters of class cls that starts at position i
RECURSIVE Run(_, _, _)
Run(s, i, cls) ==
    IF i <= Len(s) /\ s[i] \in cls THEN 1 + Run(s, i + 1, cls) ELSE 0

\* value of the k digits that start at position i
RECURSIVE Num(_, _, _)
Num(s, i, k) ==
    IF k = 0 THEN 0 ELSE Num(s, i, k - 1) * 10 + DigitVal[s[i + k - 1]]

\* the character at position i is c
At(s, i, c) == i <= Len(s) /\ s[i] = c

IsLeap(y) == (y % 4 = 0 /\ y % 100 # 0) \/ y % 400 = 0

DaysInMonth(y, m) ==
    IF m = 2 THEN (IF IsLeap(y) THEN 29 ELSE 28)
    ELSE IF m \in {4, 6, 9, 11} THEN 30 ELSE 31

\* day number of the civil date y-m-d, counted from 1970-01-01
DaysFromCivil(y, m, d) ==
    LET yy == IF m <= 2 THEN y - 1 ELSE y
        era == yy \div 400
        yoe == yy - era * 400
        mp == (m + 9) % 12
        doy == (153 * mp + 2) \div 5 + d - 1
        doe == yoe * 365 + yoe \div 4 - yoe \div 100 + doy
    IN  era * 146097 + doe - 719468

\* datetime.strptime(text, "%Y-%m-%d %H:%M:%S") on the characters s:
\* Return(datetime) or Raise(ValueError)
strptime(s) ==
    LET mpos == 6
        ml == Run(s, mpos, Digits)
        mv == Num(s, mpos, ml)
        dpos == mpos + ml + 1
        sp == IF At(s, dpos, " ") THEN 1 ELSE 0
        dl == Run(s, dpos + sp, Digits)
        dv == Num(s, dpos + sp, dl)
        wpos == dpos + sp + dl
        wl == Run(s, wpos, Whitespace)
        hpos == wpos + wl
        hl == Run(s, hpos, Digits)
        hv == Num(s, hpos, hl)
        Mpos == hpos + hl + 1
        Ml == Run(s, Mpos, Digits)
        Mv == Num(s, Mpos, Ml)
        Spos == Mpos + Ml + 1
        Srun == Run(s, Spos, Digits)
        Sl == IF Srun >= 2 /\ Num(s, Spos, 2) <= 61 THEN 2
              ELSE IF Srun >= 1 THEN 1 ELSE 0
        Sv == Num(s, Spos, Sl)
        yv == Num(s, 1, 4)
        matches ==
            /\ Run(s, 1, Digits) = 4 /\ At(s, 5, "-")
            /\ ml \in 1..2 /\ mv \in 1..12 /\ At(s, mpos + ml, "-")
            /\ \/ sp = 0 /\ dl \in 1..2 /\ dv \in 1..31
               \/ sp = 1 /\ dl = 1 /\ dv \in 1..9
            /\ wl >= 1
            /\ hl \in 1..2 /\ hv \in 0..23 /\ At(s, hpos + hl, ":")
            /\ Ml \in 1..2 /\ Mv \in 0..59 /\ At(s, Mpos + Ml, ":")
            /\ Sl \in 1..2
        consumed == Spos + Sl - 1 = Len(s)
    IN  IF ~matches THEN
            Raise("ValueError", "time data does not match format")
        ELSE IF ~consumed THEN
            Raise("ValueError", "unconverted data remains")
        ELSE IF yv < 1 \/ dv > DaysInMonth(yv, mv) THEN
            Raise("ValueError", "day is out of range for month")
        ELSE IF Sv > 59 THEN
            Raise("ValueError", "second must be in 0..59")
        ELSE
            Return(DateTime(DaysFromCivil(yv, mv, dv),
                            hv * 3600 + Mv * 60 + Sv, 0))

\* strptime of every date string of the model
Parsed == [text \in DOMAIN Chars |-> strptime(Chars[text])]

\* utils.days_to_datetime(days), now being the clock reading it takes
days_to_datetime(days, now) == [now EXCEPT !.day = @ - days]

\* utils.timestamp(date): whole seconds since the epoch
timestamp(date) == date.day * 86400 + date.sec

(* --------------------------- the remote service ------------------------ *)
\* one call of a method of a service handle of the client
RemoteCall(service, method, params, kwargs) ==
    [service |-> service, method |-> method, params |-> params, kwargs |-> kwargs]

NoKwargs == [k \in {} |-> ""]

\* what a manager method did: the remote calls it issued and how it ended
Done(calls, outcome) == [calls |-> calls, outcome |-> outcome]

(* ------------------------------ CDNManager ----------------------------- *)
\* reply is the answer of the remote service to the call the method issues:
\* Return(value) or Raise(error)

list_cdn(kwargs, reply) ==
    Done(<<RemoteCall("Network_CdnMarketplace_Configuration_Mapping",
                      "listDomainMappings", <<>>, kwargs)>>,
         reply)

\* get_cdn with the empty collection swallowed: None is returned
get_cdn_Swallow(unique_id, kwargs, reply) ==
    Done(<<RemoteCall("Network_CdnMarketplace_Configuration_Mapping",
                      "listDomainMappingByUniqueId", <<unique_id>>, kwargs)>>,
         IF reply.t = "raise" THEN reply
         ELSE IF reply.v.v = <<>> THEN Return(PyNone)
         ELSE GetItemInt(reply.v, 0))

get_cdn(unique_id, kwargs, reply) ==
    Done(<<RemoteCall("Network_CdnMarketplace_Configuration_Mapping",
                      "listDomainMappingByUniqueId", <<unique_id>>, kwargs)>>,
         IF reply.t = "raise" THEN reply ELSE GetItemInt(reply.v, 0))

get_origins(unique_id, kwargs, reply) ==
    Done(<<RemoteCall("SoftLayer_Network_CdnMarketplace_Configuration_Mapping_Path",
                      "listOriginPath", <<unique_id>>, kwargs)>>,
         reply)

\* the fields every new_origin record has, and the header when it is truthy
new_origin_fields(unique_id, path, origin_address, origin_type, header, port, protocol, optimize_for, cache_query) ==
    [uniqueId |-> unique_id,
     path |-> path,
     origin |-> origin_address,
     originType |-> origin_type,
     httpPort |-> port,
     protocol |-> protocol,
     performanceConfiguration |-> optimize_for,
     cacheKeyQueryRule |-> cache_query]
    @@ (IF Truthy(header) THEN "header" :> header ELSE EmptyDict)

\* the OBJECT_STORAGE block without the bucket-name check
object_storage_fields_NoCheck(new_origin, origin_type, bucket_name, file_extensions) ==
    IF origin_type = Str("OBJECT_STORAGE") THEN
        Return((IF Truthy(bucket_name)
                THEN "bucketName" :> bucket_name ELSE EmptyDict)
               @@ (IF Truthy(file_extensions)
                   THEN "fileExtension" :> file_extensions ELSE EmptyDict)
               @@ new_origin)
    ELSE
        Return(new_origin)

\* the OBJECT_STORAGE block with the file extensions added for every origin type
object_storage_fields_AnyType(new_origin, origin_type, bucket_name, file_extensions) ==
    IF origin_type = Str("OBJECT_STORAGE") /\ ~Truthy(bucket_name) THEN
        Raise("SoftLayerError",
              "Bucket name is required when the origin type is OBJECT_STORAGE")
    ELSE
        Return((IF origin_type = Str("OBJECT_STORAGE")
                THEN "bucketName" :> bucket_name ELSE EmptyDict)
               @@ (IF Truthy(file_extensions)
                   THEN "fileExtension" :> file_extensions ELSE EmptyDict)
               @@ new_origin)

\* the OBJECT_STORAGE block with the file extensions left out
object_storage_fields_NoExtension(new_origin, origin_type, bucket_name, file_extensions) ==
    IF origin_type = Str("OBJECT_STORAGE") THEN
        IF Truthy(bucket_name) THEN
            Return(("bucketName" :> bucket_name) @@ new_origin)
        ELSE
            Raise("SoftLayerError",
                  "Bucket name is required when the origin type is OBJECT_STORAGE")
    ELSE
        Return(new_origin)

\* the OBJECT_STORAGE block: Return(new_origin), extended, or Raise
object_storage_fields(new_origin, origin_type, bucket_name, file_extensions) ==
    IF origin_type = Str("OBJECT_STORAGE") THEN
        IF Truthy(bucket_name) THEN
            Return(("bucketName" :> bucket_name)
                   @@ (IF Truthy(file_extensions)
                       THEN "fileExtension" :> file_extensions ELSE EmptyDict)
                   @@ new_origin)
        ELSE
            Raise("SoftLayerError",
                  "Bucket name is required when the origin type is OBJECT_STORAGE")
    ELSE
        Return(new_origin)

add_origin(unique_id, path, origin_address, origin_type, header, port, protocol, bucket_name, file_extensions, optimize_for, cache_query, reply) ==
    LET new_origin ==
            object_storage_fields(
                new_origin_fields(unique_id, path, origin_address, origin_type,
                                  header, port, protocol, optimize_for, cache_query),
                origin_type, bucket_name, file_extensions)
    IN  IF new_origin.t = "raise" THEN Done(<<>>, new_origin)
        ELSE Done(<<RemoteCall("SoftLayer_Network_CdnMarketplace_Configuration_Mapping_Path",
                               "createOriginPath", <<Dict(new_origin.v)>>, NoKwargs)>>,
                  IF reply.t = "raise" THEN reply ELSE GetItemInt(reply.v, 0))

\* remove_origin with the call repeated after a remote error
remove_origin_Retry(unique_id, path, reply) ==
    LET call == RemoteCall("SoftLayer_Network_CdnMarketplace_Configuration_Mapping_Path",
                           "deleteOriginPath", <<unique_id, path>>, NoKwargs)
    IN  Done(IF reply.t = "raise" THEN <<call, call>> ELSE <<call>>, reply)

remove_origin(unique_id, path, reply) ==
    Done(<<RemoteCall("SoftLayer_Network_CdnMarketplace_Configuration_Mapping_Path",
                      "deleteOriginPath", <<unique_id, path>>, NoKwargs)>>,
         reply)

\* purge_content with the collection unwrapped as in get_cdn
purge_content_Unwrap(unique_id, path, reply) ==
    Done(<<RemoteCall("SoftLayer_Network_CdnMarketplace_Configuration_Cache_Purge",
                      "createPurge", <<unique_id, path>>, NoKwargs)>>,
         IF reply.t = "raise" THEN reply ELSE GetItemInt(reply.v, 0))

purge_content(unique_id, path, reply) ==
    Done(<<RemoteCall("SoftLayer_Network_CdnMarketplace_Configuration_Cache_Purge",
                      "createPurge", <<unique_id, path>>, NoKwargs)>>,
         reply)

\* the date window without the check that both dates are given
resolve_window_NoCheck(start_date, end_date, days, now1, now2) ==
    IF Truthy(start_date) /\ Truthy(end_date) THEN
        LET s == Parsed[start_date.v]
            e == Parsed[end_date.v]
        IN  IF s.t = "raise" THEN s
            ELSE IF e.t = "raise" THEN e
            ELSE Return(<<s.v, e.v>>)
    ELSE
        Return(<<days_to_datetime(days, now1), days_to_datetime(0, now2)>>)

\* the date window with the given dates ignored
resolve_window_DaysOnly(start_date, end_date, days, now1, now2) ==
    IF Truthy(start_date) # Truthy(end_date) THEN
        Raise("ValueError",
              "start_date or end_date is None, both need to be strings or None.")
    ELSE
        Return(<<days_to_datetime(days, now1), days_to_datetime(0, now2)>>)

\* the date window with a parse failure caught and the default window used
resolve_window_Fallback(start_date, end_date, days, now1, now2) ==
    LET _start == days_to_datetime(days, now1)
        _end == days_to_datetime(0, now2)
    IN  IF Truthy(start_date) /\ Truthy(end_date) THEN
            LET s == Parsed[start_date.v]
                e == Parsed[end_date.v]
            IN  IF s.t = "raise" \/ e.t = "raise" THEN Return(<<_start, _end>>)
                ELSE Return(<<s.v, e.v>>)
        ELSE IF Truthy(start_date) # Truthy(end_date) THEN
            Raise("ValueError",
                  "start_date or end_date is None, both need to be strings or None.")
        ELSE
            Return(<<_start, _end>>)

\* the date window: Return(<<_start, _end>>) or Raise.  now1 and now2 are the
\* clock readings of the two days_to_datetime calls.
resolve_window(start_date, end_date, days, now1, now2) ==
    LET _start == days_to_datetime(days, now1)
        _end == days_to_datetime(0, now2)
    IN  IF Truthy(start_date) /\ Truthy(end_date) THEN
            LET s == Parsed[start_date.v]
                e == Parsed[end_date.v]
            IN  IF s.t = "raise" THEN s
                ELSE IF e.t = "raise" THEN e
                ELSE Return(<<s.v, e.v>>)
        ELSE IF Truthy(start_date) # Truthy(end_date) THEN
            Raise("ValueError",
                  "start_date or end_date is None, both need to be strings or None.")
        ELSE
            Return(<<_start, _end>>)

get_usage_metrics(unique_id, start_date, end_date, days, frequency, now1, now2, reply) ==
    LET window == resolve_window(start_date, end_date, days, now1, now2)
    IN  IF window.t = "raise" THEN Done(<<>>, window)
        ELSE Done(<<RemoteCall("Network_CdnMarketplace_Metrics",
                               "getMappingUsageMetrics",
                               <<unique_id,
                                 PyInt(timestamp(window.v[1])),
                                 PyInt(timestamp(window.v[2])),
                                 frequency>>,
                               NoKwargs)>>,
                  IF reply.t = "raise" THEN reply ELSE GetItemInt(reply.v, 0))

(* ---------------------------- cdn purge (CLI) -------------------------- *)
\* formatting.Table(columns) and Table.add_row(row)
Table(columns) == [columns |-> columns, rows |-> <<>>]
add_row(table, row) == [table EXCEPT !.rows = Append(@, row)]

\* exit status of the command
ExitCode(outcome) == IF outcome.t = "raise" THEN 1 ELSE 0

\* the command: the calls it issued, how it ended, what it wrote
cli(unique_id, path, reply) ==
    LET purged == purge_content(unique_id, path, reply)
        result == purged.outcome
        keys == <<"date", "path", "saved", "status">>
        cell == [i \in 1..4 |-> GetItemStr(result.v, keys[i])]
        failed == {i \in 1..4 : cell[i].t = "raise"}
        first == CHOOSE i \in failed : \A j \in failed : i <= j
        table == add_row(Table(<<"Date", "Path", "Saved", "Status">>),
                         [i \in 1..4 |-> cell[i].v])
    IN  IF result.t = "raise" THEN
            [calls |-> purged.calls, outcome |-> result, fout |-> <<>>]
        ELSE IF failed # {} THEN
            [calls |-> purged.calls, outcome |-> cell[first], fout |-> <<>>]
        ELSE
            [calls |-> purged.calls, outcome |-> Return(PyNone), fout |-> <<table>>]

(* ------------------------------- inputs -------------------------------- *)
UniqueIds == {Str("9779455")}
Paths == {Str("/article/file.txt")}
KwargsSet == {NoKwargs, "mask" :> "id"}
OriginTypes == {Str("HOST_SERVER"), Str("OBJECT_STORAGE")}
Headers == {PyNone, Str(""), Str("test.example.com")}
BucketNames == {PyNone, Str(""), Str("test-bucket-name")}
FileExtensions == {PyNone, Str(""), Str("jpg")}
StartDates == {PyNone, Str("")} \cup {Str(s) : s \in DOMAIN Chars}
Frequencies == {Str("aggregate"), Str("day")}

\* records of the remote service
Mappings == {Dict("id" :> PyInt(1)), Dict("id" :> PyInt(2))}
PurgeRecords ==
    {Dict([date |-> Str("2020-01-29T07:50:09-07:00"),
           path |-> Str("/article/file.txt"),
           saved |-> Str("UNSAVED"),
           status |-> Str(st)]) : st \in {"SUCCESS", "FAILED"}}

\* the collections of at most MaxLen records of S
Collections(S) == {List(s) : s \in UNION {[1..n -> S] : n \in 0..MaxLen}}

RemoteError == Raise("SoftLayerAPIError", "error raised by the remote call")

\* answers of the remote methods
CollectionReplies == {Return(c) : c \in Collections(Mappings)} \cup {RemoteError}
DeleteReplies == {Return(Str("Origin with path /article/file.txt has been deleted")),
                  RemoteError}
\* createPurge answers with a collection of purge records; an answer that is
\* one bare purge record is the only shape the command's rendering accepts
PurgeReplies ==
    {Return(c) : c \in Collections(PurgeRecords)}
    \cup {Return(r) : r \in PurgeRecords}
    \cup {RemoteError}

(* -------------------------------- state -------------------------------- *)
VARIABLES
    clock,      \* the wall clock
    op,         \* the operation invoked last
    args,       \* its arguments
    reads,      \* the clock readings it took
    calls,      \* the remote calls it issued
    reply,      \* the answer of the remote service to its call
    outcome,    \* how it ended: Return(value) or Raise(error)
    fout,       \* the tables it wrote to the output sink
    exit_code   \* <<status>> when it was a command, else <<>>

vars == <<clock, op, args, reads, calls, reply, outcome, fout, exit_code>>

NoReply == [t |-> "nocall"]

Clock0 == DateTime(18687, 43199, 0)

\* half-second steps of the clock since Clock0
Elapsed(now) == (now.sec - Clock0.sec) * 2 + now.us \div 500000

\* the clock k half-second steps later
RECURSIVE Advance(_, _)
Advance(now, k) ==
    IF k = 0 THEN now
    ELSE Advance(IF now.us = 0 THEN [now EXCEPT !.us = 500000]
                 ELSE [now EXCEPT !.us = 0, !.sec = @ + 1], k - 1)

Init ==
    /\ clock = Clock0
    /\ op = "none"
    /\ args = [none |-> TRUE]
    /\ reads = <<>>
    /\ calls = <<>>
    /\ reply = NoReply
    /\ outcome = Return(PyNone)
    /\ fout = <<>>
    /\ exit_code = <<>>

\* a manager method was invoked with arguments a and did d
Finish(name, a, d, r) ==
    /\ op' = name
    /\ args' = a
    /\ calls' = d.calls
    /\ reply' = IF d.calls = <<>> THEN NoReply ELSE r
    /\ outcome' = d.outcome
    /\ fout' = <<>>
    /\ exit_code' = <<>>

ListCdn ==
    /\ op = "none"
    /\ \E kwargs \in KwargsSet, r \in CollectionReplies :
            /\ Finish("list_cdn", [kwargs |-> kwargs], list_cdn(kwargs, r), r)
            /\ UNCHANGED clock
            /\ reads' = <<>>

GetCdn ==
    /\ op = "none"
    /\ \E unique_id \in UniqueIds, kwargs \in KwargsSet, r \in CollectionReplies :
            /\ Finish("get_cdn", [unique_id |-> unique_id, kwargs |-> kwargs],
                      get_cdn(unique_id, kwargs, r), r)
            /\ UNCHANGED clock
            /\ reads' = <<>>

GetOrigins ==
    /\ op = "none"
    /\ \E unique_id \in UniqueIds, kwargs \in KwargsSet, r \in CollectionReplies :
            /\ Finish("get_origins", [unique_id |-> unique_id, kwargs |-> kwargs],
                      get_origins(unique_id, kwargs, r), r)
            /\ UNCHANGED clock
            /\ reads' = <<>>

AddOrigin ==
    /\ op = "none"
    /\ \E unique_id \in UniqueIds, path \in Paths, origin_type \in OriginTypes,
           header \in Headers, bucket_name \in BucketNames,
           file_extensions \in FileExtensions, r \in CollectionReplies :
            LET origin_address == Str("10.32.12.125")
                port == PyInt(80)
                protocol == Str("HTTP")
                optimize_for == Str("General web delivery")
                cache_query == Str("include all")
            IN  /\ Finish("add_origin",
                          [unique_id |-> unique_id, path |-> path,
                           origin_address |-> origin_address,
                           origin_type |-> origin_type, header |-> header,
                           port |-> port, protocol |-> protocol,
                           bucket_name |-> bucket_name,
                           file_extensions |-> file_extensions,
                           optimize_for |-> optimize_for, cache_query |-> cache_query],
                          add_origin(unique_id, path, origin_address, origin_type,
                                     header, port, protocol, bucket_name,
                                     file_extensions, optimize_for, cache_query, r),
                          r)
                /\ UNCHANGED clock
                /\ reads' = <<>>

RemoveOrigin ==
    /\ op = "none"
    /\ \E unique_id \in UniqueIds, path \in Paths, r \in DeleteReplies :
            /\ Finish("remove_origin", [unique_id |-> unique_id, path |-> path],
                      remove_origin(unique_id, path, r), r)
            /\ UNCHANGED clock
            /\ reads' = <<>>

PurgeContent ==
    /\ op = "none"
    /\ \E unique_id \in UniqueIds, path \in Paths, r \in PurgeReplies :
            /\ Finish("purge_content", [unique_id |-> unique_id, path |-> path],
                      purge_content(unique_id, path, r), r)
            /\ UNCHANGED clock
            /\ reads' = <<>>

GetUsageMetrics ==
    /\ op = "none"
    /\ \E unique_id \in UniqueIds, start_date \in StartDates, end_date \in StartDates,
           days \in 0..MaxDays, frequency \in Frequencies,
           a \in 0..1, b \in 0..1, r \in CollectionReplies :
            LET now1 == Advance(clock, a)
                now2 == Advance(now1, b)
            IN  /\ Elapsed(clock) + a + b <= MaxTicks
                /\ Finish("get_usage_metrics",
                          [unique_id |-> unique_id, start_date |-> start_date,
                           end_date |-> end_date, days |-> days,
                           frequency |-> frequency],
                          get_usage_metrics(unique_id, start_date, end_date, days,
                                            frequency, now1, now2, r),
                          r)
                /\ clock' = now2
                /\ reads' = <<now1, now2>>

Cli ==
    /\ op = "none"
    /\ \E unique_id \in UniqueIds, path \in Paths, r \in PurgeReplies :
            LET d == cli(unique_id, path, r)
            IN  /\ op' = "cli"
                /\ args' = [unique_id |-> unique_id, path |-> path]
                /\ calls' = d.calls
                /\ reply' = r
                /\ outcome' = d.outcome
                /\ fout' = d.fout
                /\ exit_code' = <<ExitCode(d.outcome)>>
                /\ UNCHANGED clock
                /\ reads' = <<>>

\* the invocation is over: nothing of it is kept, the next one starts afresh
Finished ==
    /\ op # "none"
    /\ op' = "none"
    /\ args' = [none |-> TRUE]
    /\ reads' = <<>>
    /\ calls' = <<>>
    /\ reply' = NoReply
    /\ outcome' = Return(PyNone)
    /\ fout' = <<>>
    /\ exit_code' = <<>>
    /\ UNCHANGED clock

Next ==
    \/ ListCdn
    \/ GetCdn
    \/ GetOrigins
    \/ AddOrigin
    \/ RemoveOrigin
    \/ PurgeContent
    \/ GetUsageMetrics
    \/ Cli
    \/ Finished

Spec == Init /\ [][Next]_vars
(* ------------------------------- claims -------------------------------- *)
Absent(x) == x.t = "none" \/ (x.t = "str" /\ x.v = "")
Supplied(x) == x.t = "str" /\ x.v # ""

BucketNameError ==
    Raise("SoftLayerError",
          "Bucket name is required when the origin type is OBJECT_STORAGE")
DatesError ==
    Raise("ValueError",
          "start_date or end_date is None, both need to be strings or None.")

\* the record add_origin submitted to createOriginPath
Submitted == calls[1].params[1].v

\* seconds since the epoch of the well-formed date strings
Epoch ==
    "2021-01-01 00:00:00" :> 1609459200 @@
    "2021-01-02 00:00:00" :> 1609545600 @@
    "2021-1-2 3:04:05" :> 1609556645

WellFormed(x) == x.v \in DOMAIN Epoch

ManagerOps ==
    {"list_cdn", "get_cdn", "get_origins", "add_origin", "remove_origin",
     "purge_content", "get_usage_metrics"}

\* C1: add_origin with origin_type OBJECT_STORAGE and bucket_name None or
\* empty fails with the bucket-name error and issues no remote call, whatever
\* the other arguments are.
C1_BucketNameRequired ==
    (op = "add_origin" /\ args.origin_type = Str("OBJECT_STORAGE")
        /\ Absent(args.bucket_name))
    => (outcome = BucketNameError /\ calls = <<>>)

C1_Witness ==
    /\ op = "add_origin"
    /\ args.origin_type = Str("OBJECT_STORAGE")
    /\ args.bucket_name = Str("")
    /\ args.file_extensions = Str("jpg")
    /\ outcome = BucketNameError

\* C2: for an origin_type other than OBJECT_STORAGE the record submitted to
\* createOriginPath has neither a bucketName nor a fileExtension field,
\* whether or not bucket_name and file_extensions are supplied.
C2_NoStorageFieldsForOtherTypes ==
    (op = "add_origin" /\ args.origin_type # Str("OBJECT_STORAGE"))
    => /\ Len(calls) = 1
       /\ calls[1].method = "createOriginPath"
       /\ "bucketName" \notin DOMAIN Submitted
       /\ "fileExtension" \notin DOMAIN Submitted

C2_Witness ==
    /\ op = "add_origin"
    /\ args.origin_type = Str("HOST_SERVER")
    /\ Supplied(args.bucket_name)
    /\ Supplied(args.file_extensions)
    /\ Len(calls) = 1

\* C3: for origin_type OBJECT_STORAGE and a non-empty bucket_name the record
\* submitted has bucketName equal to the input, and has fileExtension, equal
\* to file_extensions, exactly when file_extensions is non-empty.
C3_StorageFields ==
    (op = "add_origin" /\ args.origin_type = Str("OBJECT_STORAGE")
        /\ Supplied(args.bucket_name))
    => /\ Len(calls) = 1
       /\ calls[1].method = "createOriginPath"
       /\ "bucketName" \in DOMAIN Submitted
       /\ Submitted["bucketName"] = args.bucket_name
       /\ Supplied(args.file_extensions) <=> "fileExtension" \in DOMAIN Submitted
       /\ Supplied(args.file_extensions)
            => Submitted["fileExtension"] = args.file_extensions

C3_Witness ==
    /\ op = "add_origin"
    /\ args.origin_type = Str("OBJECT_STORAGE")
    /\ args.bucket_name = Str("test-bucket-name")
    /\ args.file_extensions = Str("jpg")
    /\ Len(calls) = 1
    /\ outcome.t = "return"

\* C4: get_usage_metrics with exactly one of start_date and end_date supplied
\* fails with the "both need to be strings or None" error and issues no remote
\* call, whatever days and frequency are.
C4_OneDateOnly ==
    (op = "get_usage_metrics"
        /\ Supplied(args.start_date) # Supplied(args.end_date))
    => (outcome = DatesError /\ calls = <<>>)

C4_Witness ==
    /\ op = "get_usage_metrics"
    /\ args.start_date = Str("2021-01-01 00:00:00")
    /\ args.end_date = PyNone
    /\ args.days = 1
    /\ outcome = DatesError

\* C5: with both dates supplied and well-formed, get_usage_metrics sends the
\* epoch timestamps of the two parsed dates, whatever days is; with neither
\* supplied it sends those of (now - days) and now, now being the clock as
\* days_to_datetime reads it; unique_id and frequency are forwarded unchanged
\* and the first element of the answer is returned.
C5_Window ==
    op = "get_usage_metrics" =>
        /\ (Supplied(args.start_date) /\ Supplied(args.end_date)
                /\ WellFormed(args.start_date) /\ WellFormed(args.end_date))
           => /\ Len(calls) = 1
              /\ calls[1].method = "getMappingUsageMetrics"
              /\ calls[1].params =
                    <<args.unique_id,
                      PyInt(Epoch[args.start_date.v]),
                      PyInt(Epoch[args.end_date.v]),
                      args.frequency>>
        /\ (Absent(args.start_date) /\ Absent(args.end_date))
           => /\ Len(calls) = 1
              /\ calls[1].method = "getMappingUsageMetrics"
              /\ calls[1].params =
                    <<args.unique_id,
                      PyInt((reads[1].day - args.days) * 86400 + reads[1].sec),
                      PyInt(reads[2].day * 86400 + reads[2].sec),
                      args.frequency>>
        /\ (Len(calls) = 1 /\ reply.t = "return" /\ reply.v.v # <<>>)
           => outcome = Return(reply.v.v[1])

C5_Witness ==
    /\ op = "get_usage_metrics"
    /\ args.start_date = Str("2021-01-01 00:00:00")
    /\ args.end_date = Str("2021-1-2 3:04:05")
    /\ args.days = 2
    /\ args.frequency = Str("day")
    /\ Len(calls) = 1
    /\ outcome.t = "return"

\* C6: when createPurge answers with a collection of exactly one purge record,
\* the command writes one table with columns Date, Path, Saved, Status and one
\* row of that record's date, path, saved and status, and exits with 0.
C6_CliRendersTheRecord ==
    (op = "cli" /\ reply.t = "return" /\ reply.v.t = "list" /\ Len(reply.v.v) = 1)
    => /\ outcome.t = "return"
       /\ exit_code = <<0>>
       /\ fout = <<[columns |-> <<"Date", "Path", "Saved", "Status">>,
                    rows |-> << <<reply.v.v[1].v["date"], reply.v.v[1].v["path"],
                                  reply.v.v[1].v["saved"], reply.v.v[1].v["status"]>> >>]>>

\* C7 as stated: every manager operation issues exactly one remote call, and
\* the only invocation with none is add_origin failing its bucket-name check.
C7_OnlyAddOriginSkipsTheCall ==
    op \in ManagerOps =>
        \/ Len(calls) = 1
        \/ calls = <<>> /\ op = "add_origin" /\ outcome = BucketNameError

\* C7 amended: every manager operation issues at most one remote call, with
\* no second call after a remote error; it issues none exactly when add_origin
\* fails its bucket-name check or get_usage_metrics rejects its dates (one of
\* the two missing, or both supplied and one malformed), and one otherwise.
C7_OneCallUnlessRejected ==
    op \in ManagerOps =>
        /\ Len(calls) <= 1
        /\ calls = <<>> <=>
            \/ /\ op = "add_origin"
               /\ args.origin_type = Str("OBJECT_STORAGE")
               /\ Absent(args.bucket_name)
            \/ /\ op = "get_usage_metrics"
               /\ \/ Supplied(args.start_date) # Supplied(args.end_date)
                  \/ /\ Supplied(args.start_date) /\ Supplied(args.end_date)
                     /\ ~(WellFormed(args.start_date) /\ WellFormed(args.end_date))
        /\ (calls # <<>> /\ reply.t = "raise") => outcome = reply

C7_Witness ==
    /\ op = "remove_origin"
    /\ Len(calls) = 1
    /\ reply = RemoteError
    /\ outcome = RemoteError

\* C8: get_cdn returns the first element of the collection that
\* listDomainMappingByUniqueId answers with, and raises IndexError when that
\* collection is empty.
C8_GetCdnFirstOrIndexError ==
    (op = "get_cdn" /\ reply.t = "return") =>
        IF reply.v.v = <<>>
        THEN outcome.t = "raise" /\ outcome.exc = "IndexError"
        ELSE outcome = Return(reply.v.v[1]) /\ outcome.v.t = "dict"

C8_Witness ==
    /\ op = "get_cdn"
    /\ reply = Return(List(<<>>))
    /\ outcome.t = "raise"

\* C9: purge_content returns what createPurge answers with, whole, whatever
\* its length, while get_cdn, add_origin and get_usage_metrics return the
\* first element of the answer to their call.
C9_PurgeNotUnwrapped ==
    /\ (op = "purge_content" /\ reply.t = "return")
       => (Len(calls) = 1 /\ outcome = Return(reply.v))
    /\ (op \in {"get_cdn", "add_origin", "get_usage_metrics"}
            /\ reply.t = "return" /\ reply.v.v # <<>>)
       => (outcome = Return(reply.v.v[1]) /\ outcome.v # reply.v)

C9_Witness ==
    /\ op = "purge_content"
    /\ reply.t = "return"
    /\ reply.v.t = "list"
    /\ Len(reply.v.v) >= 2
    /\ outcome = reply

\* C10: get_usage_metrics with both dates supplied and at least one of them
\* malformed raises the parser's ValueError, issues no remote call and does
\* not fall back to the default window.
C10_MalformedDate ==
    (op = "get_usage_metrics"
        /\ Supplied(args.start_date) /\ Supplied(args.end_date)
        /\ ~(WellFormed(args.start_date) /\ WellFormed(args.end_date)))
    => /\ outcome.t = "raise"
       /\ outcome.exc = "ValueError"
       /\ outcome # DatesError
       /\ calls = <<>>

C10_Witness ==
    /\ op = "get_usage_metrics"
    /\ args.start_date = Str("2021-01-01 00:00:00")
    /\ args.end_date = Str("2021-02-30 00:00:00")
    /\ outcome.t = "raise"
    /\ calls = <<>>
====
